---- MODULE Spec2Model ----
(***************************************************************************)
(* Persons API (backend/main.py): a FastAPI application with five          *)
(* endpoints over one table, "persons", reached through SQLAlchemy ORM     *)
(* sessions.                                                               *)
(*                                                                         *)
(* The table is a set of rows.  Every handler is an operator from the      *)
(* table and the request to the new table and the HTTP response, built     *)
(* from the steps the handler takes on its session (query, attribute       *)
(* assignment, flush/commit, refresh, close).  Spec runs the handlers one  *)
(* request at a time; HistSpec does the same and keeps a history of the    *)
(* keys handed out; ConcSpec runs two requests whose session steps         *)
(* interleave.                                                             *)
(*                                                                         *)
(* Store semantics the handlers rely on and that are modelled here:        *)
(*  - the integer primary key of a new row is one more than the largest    *)
(*    key in the table (1 on an empty table);                              *)
(*  - a query without ORDER BY scans the table in primary-key order;       *)
(*  - every column is NOT NULL and the primary key is unique: a flush that *)
(*    would break either raises, and the request ends in a 500;            *)
(*  - a flush writes only the attributes whose value differs from the one  *)
(*    the session loaded (the ORM's change detection), in an UPDATE keyed  *)
(*    by the primary key the session loaded; an UPDATE that matches no     *)
(*    row raises.                                                          *)
(***************************************************************************)
EXTENDS Integers, Sequences, FiniteSets, TLC

\* Create is not offered once the next primary key would exceed MaxId.
MaxId == 2
\* A PATCH body holds at most MaxBodyLen key/value pairs.
MaxBodyLen == 2

(***************************************************************************)
(* JSON / column values, tagged with their type.                           *)
(***************************************************************************)
StrV(s) == [t |-> "str", s |-> s, n |-> 0]
IntV(n) == [t |-> "int", s |-> "", n |-> n]
NullV == [t |-> "null", s |-> "", n |-> 0]

\* Python truthiness of a column value: "", 0 and None are falsy.
Truthy(v) == (v.t = "str" /\ v.s # "") \/ (v.t = "int" /\ v.n # 0)

\* PersonDB's mapped attributes, and the four fields of PersonBase.
Columns == {"id", "name", "age", "address", "work"}
Fields == {"name", "age", "address", "work"}
ColumnType == [id |-> "int", name |-> "str", age |-> "int",
               address |-> "str", work |-> "str"]

\* No row: what a query that matches nothing leaves in hand.
NoRow == [id |-> NullV]

(***************************************************************************)
(* Requests the model sends.                                               *)
(***************************************************************************)
\* Path parameters: every key a row can have, and one that none has.
ReqIds == 0 .. (MaxId + 1)

\* POST bodies: well-typed ones (name and age may be "" and 0), and three
\* that PersonCreate rejects.
ValidPayloads ==
    { [name |-> nm, age |-> ag, address |-> StrV("x"), work |-> StrV("y")] :
        nm \in {StrV("a"), StrV("")}, ag \in {IntV(1), IntV(0)} }
InvalidPayloads ==
    { [name |-> StrV("a"), age |-> IntV(1), address |-> StrV("x")],
      [name |-> NullV, age |-> IntV(1), address |-> StrV("x"), work |-> StrV("y")],
      [name |-> StrV("a"), age |-> StrV("z"), address |-> StrV("x"), work |-> StrV("y")] }
Payloads == ValidPayloads \cup InvalidPayloads

\* PATCH bodies: JSON objects as sequences of key/value pairs in the order
\* the client wrote them, no key twice.  "other" is a key that is no
\* attribute of PersonDB.
Pairs ==
    { [k |-> "name", v |-> StrV("b")], [k |-> "name", v |-> NullV],
      [k |-> "age", v |-> IntV(0)],
      [k |-> "id", v |-> IntV(MaxId + 1)],
      [k |-> "other", v |-> IntV(1)] }

RECURSIVE SeqsUpTo(_)
SeqsUpTo(n) ==
    IF n = 0 THEN { <<>> }
    ELSE LET shorter == SeqsUpTo(n - 1)
         IN  shorter \cup
             { Append(b, p) : b \in {s \in shorter : Len(s) = n - 1}, p \in Pairs }

DistinctKeys(b) == \A i, j \in 1 .. Len(b) : i # j => b[i].k # b[j].k
Bodies == { b \in SeqsUpTo(MaxBodyLen) : DistinctKeys(b) }
BodyKeys(b) == { b[i].k : i \in 1 .. Len(b) }

(***************************************************************************)
(* Responses.                                                              *)
(***************************************************************************)
\* status, the JSON object {key: text} (or the rows of a 200), and the
\* Location header as path segments.
Response(status, key, text, body, location) ==
    [status |-> status, key |-> key, text |-> text, body |-> body,
     location |-> location]

\* raise HTTPException(status_code=404, detail="Not found")
NotFound == Response(404, "detail", "Not found", <<>>, <<>>)
\* error_response(msg, code): {"message": msg}
error_response(msg, code) == Response(code, "message", msg, <<>>, <<>>)
\* An exception no handler catches: the server answers 500.
ServerError == Response(500, "", "Internal Server Error", <<>>, <<>>)
\* PersonCreate did not validate: FastAPI answers 422 before the handler runs.
Unprocessable == Response(422, "detail", "validation", <<>>, <<>>)

(***************************************************************************)
(* The store.                                                              *)
(***************************************************************************)
Max(S) == CHOOSE m \in S : \A x \in S : x <= m
Min(S) == CHOOSE m \in S : \A x \in S : m <= x

Keys(tbl) == { r.id.n : r \in tbl }

\* The key the store gives a new row.
NextId(tbl) == IF tbl = {} THEN 1 ELSE Max(Keys(tbl)) + 1

\* nullable=False on every column, and the primary key is never NULL.
NotNullDropped(row) == TRUE
NotNull(row) == \A c \in Columns : row[c].t # "null"

\* db.query(PersonDB).all(): the rows in primary-key order.
RECURSIVE Scan(_)
Scan(tbl) ==
    IF tbl = {} THEN <<>>
    ELSE LET first == CHOOSE r \in tbl : r.id.n = Min(Keys(tbl))
         IN  <<first>> \o Scan(tbl \ {first})

(***************************************************************************)
(* Session steps.                                                          *)
(***************************************************************************)
\* get_person_by_id: the first row with that key, or the 404.
get_person_by_id(tbl, id) ==
    LET m == { r \in tbl : r.id = IntV(id) }
    IN  IF m = {} THEN [found |-> FALSE, row |-> NoRow]
        ELSE [found |-> TRUE, row |-> CHOOSE r \in m : TRUE]

\* The loop of update_person over person.items(), on the in-memory object:
\* getattr raises on a name that is no attribute, a falsy current value ends
\* the handler with the 400, anything else is assigned.
RECURSIVE Assign(_, _)
Assign(obj, body) ==
    IF body = <<>> THEN [status |-> "ok", obj |-> obj]
    ELSE LET p == Head(body)
         IN  IF p.k \notin Columns THEN [status |-> "attr_error", obj |-> obj]
             ELSE IF ~Truthy(obj[p.k]) THEN [status |-> "invalid", obj |-> obj]
             ELSE Assign([obj EXCEPT ![p.k] = p.v], Tail(body))

\* The attributes a flush writes: those whose value differs from the loaded one.
Changed(loaded, obj) == { c \in Columns : obj[c] # loaded[c] }

\* The flush of db.commit() for a loaded object: UPDATE persons SET <changed>
\* WHERE id = <loaded id>.  ok is FALSE when the statement raises: no row
\* matched, a NULL in a NOT NULL column, a duplicate primary key.
Flush(tbl, loaded, obj) ==
    LET ch == Changed(loaded, obj)
        cur == { r \in tbl : r.id = loaded.id }
    IN  IF ch = {} THEN [ok |-> TRUE, tbl |-> tbl]
        ELSE IF cur = {} THEN [ok |-> FALSE, tbl |-> tbl]
        ELSE LET old == CHOOSE r \in cur : TRUE
                 new == [c \in Columns |-> IF c \in ch THEN obj[c] ELSE old[c]]
             IN  IF ~NotNull(new) THEN [ok |-> FALSE, tbl |-> tbl]
                 ELSE IF new.id # old.id /\ new.id.n \in Keys(tbl)
                      THEN [ok |-> FALSE, tbl |-> tbl]
                 ELSE [ok |-> TRUE, tbl |-> (tbl \ {old}) \cup {new}]

\* db.refresh(obj): reload the row by the object's primary key; raises when
\* the row is gone.
Refresh(tbl, obj) ==
    LET m == { r \in tbl : r.id = obj.id }
    IN  IF m = {} THEN [ok |-> FALSE, row |-> NoRow]
        ELSE [ok |-> TRUE, row |-> CHOOSE r \in m : TRUE]

\* db.close() in get_db's finally: what the session assigned and never
\* committed is discarded; the table is what it was.
CloseFlushes(tbl, loaded, obj) == Flush(tbl, loaded, obj).tbl
Close(tbl, loaded, obj) == tbl

\* db.delete(person); db.commit()
DeleteAll(tbl, row) == {}
DeleteRow(tbl, row) == { r \in tbl : r.id # row.id }

\* response.headers["Location"] = f"/persons/{db_person.id}", as path segments.
LocationOfCount(tbl, row) == <<"persons", Cardinality(tbl)>>
Location(tbl, row) == <<"persons", row.id.n>>

(***************************************************************************)
(* The handlers.                                                           *)
(***************************************************************************)
\* PersonCreate: the four fields, each of its declared type.
ValidPayload(p) ==
    /\ Fields \subseteq DOMAIN p
    /\ \A f \in Fields : p[f].t = ColumnType[f]

read_person(tbl, id) ==
    LET p == get_person_by_id(tbl, id)
    IN  IF p.found THEN Response(200, "", "", <<p.row>>, <<>>) ELSE NotFound

read_persons(tbl) == Response(200, "", "", Scan(tbl), <<>>)

create_person(tbl, payload) ==
    IF ~ValidPayload(payload) THEN [tbl |-> tbl, resp |-> Unprocessable]
    ELSE LET row == [c \in Columns |->
                        IF c = "id" THEN IntV(NextId(tbl)) ELSE payload[c]]
             new == tbl \cup {row}
             rf  == Refresh(new, row)
         IN  [tbl |-> new, resp |-> Response(201, "", "", <<>>, Location(new, rf.row))]

update_person(tbl, id, body) ==
    LET p == get_person_by_id(tbl, id)
    IN  IF ~p.found THEN [tbl |-> tbl, resp |-> NotFound]
        ELSE LET a == Assign(p.row, body)
             IN  IF a.status = "attr_error"
                 THEN [tbl |-> Close(tbl, p.row, a.obj), resp |-> ServerError]
                 ELSE IF a.status = "invalid"
                 THEN [tbl |-> Close(tbl, p.row, a.obj),
                       resp |-> error_response("Invalid data", 400)]
                 ELSE LET f == Flush(tbl, p.row, a.obj)
                      IN  IF ~f.ok THEN [tbl |-> tbl, resp |-> ServerError]
                          ELSE LET rf == Refresh(f.tbl, a.obj)
                               IN  [tbl |-> f.tbl,
                                    resp |-> Response(200, "", "", <<rf.row>>, <<>>)]

delete_person(tbl, id) ==
    LET p == get_person_by_id(tbl, id)
    IN  IF ~p.found THEN [tbl |-> tbl, resp |-> NotFound]
        ELSE [tbl |-> DeleteRow(tbl, p.row), resp |-> Response(204, "", "", <<>>, <<>>)]

(***************************************************************************)
(* State.                                                                  *)
(***************************************************************************)
VARIABLES
    persons,   \* the table
    last,      \* the endpoint and status of the latest response
    track,     \* whether this run keeps the history below
    alive,     \* keys Create has handed out and DELETE has not since removed
    deleted,   \* whether any DELETE has answered 204
    order,     \* while nothing was deleted: the rows' keys, oldest row first
    pc,        \* ConcSpec: where each request stands
    req,       \* ConcSpec: each request's endpoint, path id and body
    sess,      \* ConcSpec: each request's session: open?, the row it loaded,
               \*   the object after the handler's assignments
    resp,      \* ConcSpec: each request's response status (0: none yet)
    commits    \* ConcSpec: the requests whose db.commit() returned, in order

histvars == <<track, alive, deleted, order>>
concvars == <<pc, req, sess, resp, commits>>
vars == <<persons, last, track, alive, deleted, order, pc, req, sess, resp, commits>>

\* The two requests of ConcSpec.
Reqs == {"r1", "r2"}
NoPayload == [name |-> NullV]
NoReq == [op |-> "none", id |-> 0, body |-> <<>>, payload |-> NoPayload]
NoSess == [open |-> FALSE, loaded |-> NoRow, obj |-> NoRow]
Idle ==
    /\ pc = [r \in Reqs |-> "idle"]
    /\ req = [r \in Reqs |-> NoReq]
    /\ sess = [r \in Reqs |-> NoSess]
    /\ resp = [r \in Reqs |-> 0]
    /\ commits = <<>>

Init ==
    /\ persons = {}
    /\ last = [op |-> "none", status |-> 0]
    /\ track = FALSE
    /\ alive = {}
    /\ deleted = FALSE
    /\ order = <<>>
    /\ Idle

HistInit ==
    /\ persons = {}
    /\ last = [op |-> "none", status |-> 0]
    /\ track = TRUE
    /\ alive = {}
    /\ deleted = FALSE
    /\ order = <<>>
    /\ Idle

Answered(op, rsp) ==
    last' = IF track THEN last ELSE [op |-> op, status |-> rsp.status]

ReadPerson ==
    \E id \in ReqIds :
        /\ Answered("get", read_person(persons, id))
        /\ UNCHANGED <<persons, track, alive, deleted, order>>
        /\ UNCHANGED concvars

ReadPersons ==
    /\ Answered("list", read_persons(persons))
    /\ UNCHANGED <<persons, track, alive, deleted, order>>
    /\ UNCHANGED concvars

CreatePerson ==
    \E payload \in Payloads :
        /\ NextId(persons) <= MaxId
        /\ LET r == create_person(persons, payload)
           IN  /\ persons' = r.tbl
               /\ Answered("post", r.resp)
               /\ IF track /\ r.resp.status = 201
                  THEN /\ alive' = alive \cup {r.resp.location[2]}
                       /\ order' = IF deleted THEN <<>>
                                   ELSE Append(order, r.resp.location[2])
                  ELSE UNCHANGED <<alive, order>>
        /\ UNCHANGED <<track, deleted>>
        /\ UNCHANGED concvars

UpdatePerson ==
    \E id \in ReqIds, body \in Bodies :
        /\ LET r == update_person(persons, id, body)
           IN  /\ persons' = r.tbl
               /\ Answered("patch", r.resp)
               /\ IF track /\ r.resp.status = 200
                  THEN order' = [i \in 1 .. Len(order) |->
                                    IF order[i] = id THEN r.resp.body[1].id.n
                                    ELSE order[i]]
                  ELSE UNCHANGED order
        /\ UNCHANGED <<track, alive, deleted>>
        /\ UNCHANGED concvars

DeletePerson ==
    \E id \in ReqIds :
        /\ LET r == delete_person(persons, id)
           IN  /\ persons' = r.tbl
               /\ Answered("delete", r.resp)
               /\ IF track /\ r.resp.status = 204
                  THEN /\ alive' = alive \ {id}
                       /\ deleted' = TRUE
                       /\ order' = <<>>
                  ELSE UNCHANGED <<alive, deleted, order>>
        /\ UNCHANGED track
        /\ UNCHANGED concvars

Next ==
    \/ ReadPerson
    \/ ReadPersons
    \/ CreatePerson
    \/ UpdatePerson
    \/ DeletePerson

Spec == Init /\ [][Next]_vars

HistSpec == HistInit /\ [][Next]_vars

(***************************************************************************)
(* Two requests at once (ConcSpec).  Each request has its own session      *)
(* (get_db) and takes its handler's steps against the shared table; the    *)
(* steps of the two interleave.  A step is one round trip to the store:    *)
(* the query, the flush and commit, the refresh.  What the handler does in *)
(* memory between two round trips belongs to the step that follows.        *)
(***************************************************************************)
ConcIds == 1 .. MaxId

\* The table after k Creates: odd rows all truthy, even rows "" and 0.
SeedPayload(k) ==
    IF k % 2 = 1
    THEN [name |-> StrV("a"), age |-> IntV(1), address |-> StrV("x"), work |-> StrV("y")]
    ELSE [name |-> StrV(""), age |-> IntV(0), address |-> StrV("x"), work |-> StrV("y")]

RECURSIVE SeedTable(_)
SeedTable(k) ==
    IF k = 0 THEN {}
    ELSE create_person(SeedTable(k - 1), SeedPayload(k)).tbl

ConcBodies ==
    { << [k |-> "name", v |-> StrV("a")] >>,
      << [k |-> "name", v |-> StrV("b")] >>,
      << [k |-> "name", v |-> NullV] >>,
      << [k |-> "age", v |-> IntV(0)], [k |-> "name", v |-> StrV("b")] >> }

ConcPayloads ==
    { SeedPayload(1), [name |-> StrV("a"), age |-> IntV(1), address |-> StrV("x")] }

ConcRequests ==
    { [op |-> "get", id |-> i, body |-> <<>>, payload |-> NoPayload] : i \in ConcIds }
    \cup { [op |-> "list", id |-> 0, body |-> <<>>, payload |-> NoPayload] }
    \cup { [op |-> "post", id |-> 0, body |-> <<>>, payload |-> p] : p \in ConcPayloads }
    \cup { [op |-> "patch", id |-> i, body |-> b, payload |-> NoPayload] :
             i \in ConcIds, b \in ConcBodies }
    \cup { [op |-> "delete", id |-> i, body |-> <<>>, payload |-> NoPayload] :
             i \in ConcIds }

ConcInit ==
    /\ persons \in { SeedTable(k) : k \in 0 .. MaxId }
    /\ last = [op |-> "none", status |-> 0]
    /\ track = FALSE
    /\ alive = {}
    /\ deleted = FALSE
    /\ order = <<>>
    /\ Idle

\* get_db after the handler is through: the finally closes the session
\* whether the handler returned or raised.
OpenUnlessReturned(status) == status \in {404, 500}
OpenAfterExit(status) == FALSE

Respond(r, status) ==
    /\ resp' = [resp EXCEPT ![r] = status]
    /\ pc' = [pc EXCEPT ![r] = "responded"]

\* The request arrives; Depends(get_db) opens its session.
Begin(r) ==
    /\ pc[r] = "idle"
    /\ \E q \in ConcRequests : req' = [req EXCEPT ![r] = q]
    /\ sess' = [sess EXCEPT ![r].open = TRUE]
    /\ pc' = [pc EXCEPT ![r] = "opened"]
    /\ UNCHANGED <<persons, last, histvars, resp, commits>>

\* get_person_by_id in read_person, update_person and delete_person.
Query(r) ==
    /\ pc[r] = "opened"
    /\ req[r].op \in {"get", "patch", "delete"}
    /\ LET p == get_person_by_id(persons, req[r].id)
       IN  IF ~p.found
           THEN Respond(r, NotFound.status) /\ UNCHANGED sess
           ELSE /\ sess' = [sess EXCEPT ![r].loaded = p.row, ![r].obj = p.row]
                /\ IF req[r].op = "get"
                   THEN Respond(r, 200)
                   ELSE pc' = [pc EXCEPT ![r] = "loaded"] /\ UNCHANGED resp
    /\ UNCHANGED <<persons, last, histvars, req, commits>>

\* read_persons.
ListAll(r) ==
    /\ pc[r] = "opened"
    /\ req[r].op = "list"
    /\ Respond(r, read_persons(persons).status)
    /\ UNCHANGED <<persons, last, histvars, req, sess, commits>>

\* create_person up to db.commit(), or the 422.
Insert(r) ==
    /\ pc[r] = "opened"
    /\ req[r].op = "post"
    /\ IF ~ValidPayload(req[r].payload)
       THEN Respond(r, Unprocessable.status) /\ UNCHANGED <<persons, sess, commits>>
       ELSE LET c == create_person(persons, req[r].payload)
                row == CHOOSE x \in c.tbl : x.id = IntV(c.resp.location[2])
            IN  /\ persons' = c.tbl
                /\ sess' = [sess EXCEPT ![r].loaded = row, ![r].obj = row]
                /\ commits' = Append(commits, r)
                /\ pc' = [pc EXCEPT ![r] = "committed"]
                /\ UNCHANGED resp
    /\ UNCHANGED <<last, histvars, req>>

\* update_person from the loop to db.commit().
AssignAndCommit(r) ==
    /\ pc[r] = "loaded"
    /\ req[r].op = "patch"
    /\ LET a == Assign(sess[r].loaded, req[r].body)
       IN  IF a.status = "attr_error"
           THEN Respond(r, ServerError.status) /\ UNCHANGED <<persons, sess, commits>>
           ELSE IF a.status = "invalid"
           THEN Respond(r, 400) /\ UNCHANGED <<persons, sess, commits>>
           ELSE LET f == Flush(persons, sess[r].loaded, a.obj)
                IN  IF ~f.ok
                    THEN Respond(r, ServerError.status)
                         /\ UNCHANGED <<persons, sess, commits>>
                    ELSE /\ persons' = f.tbl
                         /\ sess' = [sess EXCEPT ![r].obj = a.obj]
                         /\ commits' = Append(commits, r)
                         /\ pc' = [pc EXCEPT ![r] = "committed"]
                         /\ UNCHANGED resp
    /\ UNCHANGED <<last, histvars, req>>

\* db.refresh(db_person) and the response, in create_person and update_person.
RefreshStep(r) ==
    /\ pc[r] = "committed"
    /\ LET rf == Refresh(persons, sess[r].obj)
       IN  IF ~rf.ok THEN Respond(r, ServerError.status) /\ UNCHANGED sess
           ELSE /\ sess' = [sess EXCEPT ![r].obj = rf.row]
                /\ Respond(r, IF req[r].op = "post" THEN 201 ELSE 200)
    /\ UNCHANGED <<persons, last, histvars, req, commits>>

\* delete_person: db.delete(person); db.commit().  A DELETE that matches no
\* row does not raise.
DeleteAndCommit(r) ==
    /\ pc[r] = "loaded"
    /\ req[r].op = "delete"
    /\ persons' = DeleteRow(persons, sess[r].loaded)
    /\ commits' = Append(commits, r)
    /\ Respond(r, 204)
    /\ UNCHANGED <<last, histvars, req, sess>>

\* get_db's finally.
CloseSession(r) ==
    /\ pc[r] = "responded"
    /\ sess' = [sess EXCEPT ![r].open = OpenAfterExit(resp[r])]
    /\ pc' = [pc EXCEPT ![r] = "done"]
    /\ UNCHANGED <<persons, last, histvars, req, resp, commits>>

Handle(r) ==
    \/ Query(r)
    \/ ListAll(r)
    \/ Insert(r)
    \/ AssignAndCommit(r)
    \/ RefreshStep(r)
    \/ DeleteAndCommit(r)
    \/ CloseSession(r)

ConcNext == \E r \in Reqs : Begin(r) \/ Handle(r)

\* Every request that has arrived keeps being served.
ConcSpec ==
    ConcInit /\ [][ConcNext]_vars /\ \A r \in Reqs : WF_vars(Handle(r))

(***************************************************************************)
(* Properties of the handlers, run one request at a time (Spec).           *)
(***************************************************************************)
HasRow(id) == get_person_by_id(persons, id).found
RowOf(id) == get_person_by_id(persons, id).row

C3_NoPartialCommit ==
    \A id \in ReqIds, body \in Bodies :
        ( /\ HasRow(id)
          /\ BodyKeys(body) \subseteq Columns
          /\ \E k \in BodyKeys(body) : ~Truthy(RowOf(id)[k]) )
        => LET r == update_person(persons, id, body)
           IN  /\ r.resp = error_response("Invalid data", 400)
               /\ r.resp.status = 400
               /\ r.resp.key = "message" /\ r.resp.text = "Invalid data"
               /\ r.tbl = persons

\* A 400 was just answered, and some body assigns a truthy field a new
\* value in memory before it meets the falsy one.
C3_Witness ==
    /\ last = [op |-> "patch", status |-> 400]
    /\ \E id \in ReqIds, body \in Bodies :
        /\ HasRow(id)
        /\ Len(body) = 2
        /\ body[1].k \in Columns /\ body[2].k \in Columns
        /\ Truthy(RowOf(id)[body[1].k])
        /\ body[1].v # RowOf(id)[body[1].k]
        /\ ~Truthy(RowOf(id)[body[2].k])
        /\ Assign(RowOf(id), body).obj # RowOf(id)
        /\ update_person(persons, id, body).resp.status = 400

\* C4 (as claimed): ids are unique, and no PATCH, whatever its body, changes
\* the id of a stored Person: the ids in the table after a PATCH are the ids
\* before it.
C4_IdImmutable ==
    [][ /\ \A r1, r2 \in persons' : r1.id = r2.id => r1 = r2
        /\ last'.op = "patch" => Keys(persons') = Keys(persons) ]_vars

\* C5 (as claimed): every stored Person has name, age, address and work truthy.
C5_AllTruthy ==
    \A r \in persons : \A f \in Fields : Truthy(r[f])

\* C5 (amended): every stored Person has all four fields (and its id)
\* populated, that is non-null; "" and 0 are stored as they are.
C5_NeverNull ==
    \A r \in persons : \A c \in Columns : r[c].t # "null"

\* A PATCH has just stored a falsy value, and from here a PATCH of null is
\* refused by the store.
C5_Witness ==
    /\ last = [op |-> "patch", status |-> 200]
    /\ \E r \in persons :
        /\ r.name = StrV("b") /\ r.age = IntV(0)
        /\ update_person(persons, r.id.n,
                         <<[k |-> "name", v |-> NullV]>>).resp.status = 500

\* C7: a DELETE on an existing id answers 204 with an empty body and removes
\* exactly that row; right afterwards a GET on the id answers 404, and a
\* second DELETE answers 404 and removes nothing.
C7_DeleteIsFinal ==
    \A id \in ReqIds :
        HasRow(id) =>
            LET d  == delete_person(persons, id)
                d2 == delete_person(d.tbl, id)
            IN  /\ d.resp.status = 204
                /\ d.resp.body = <<>>
                /\ d.tbl = persons \ {RowOf(id)}
                /\ read_person(d.tbl, id) = NotFound
                /\ d2.resp = NotFound
                /\ d2.resp.status = 404
                /\ d2.tbl = d.tbl

C7_Witness ==
    /\ last = [op |-> "delete", status |-> 204]
    /\ Cardinality(persons) = 1
    /\ \E id \in ReqIds : ~HasRow(id) /\ id < Max(Keys(persons))

\* C8 (as claimed): a PATCH on an existing id whose body names only columns
\* that are currently truthy answers 200 with the updated record: the named
\* fields hold the new values, the others their old ones, a GET on the same
\* URL returns that record, and no other row changes.
C8_PatchApplies ==
    \A id \in ReqIds, body \in Bodies :
        ( /\ HasRow(id)
          /\ BodyKeys(body) \subseteq Columns
          /\ \A k \in BodyKeys(body) : Truthy(RowOf(id)[k]) )
        => LET r == update_person(persons, id, body)
           IN  /\ r.resp.status = 200
               /\ Len(r.resp.body) = 1
               /\ \A i \in 1 .. Len(body) : r.resp.body[1][body[i].k] = body[i].v
               /\ \A c \in Columns \ BodyKeys(body) : r.resp.body[1][c] = RowOf(id)[c]
               /\ read_person(r.tbl, id) = r.resp
               /\ r.tbl \ {r.resp.body[1]} = persons \ {RowOf(id)}

(***************************************************************************)
(* Properties over a history of requests (HistSpec).                       *)
(***************************************************************************)
\* C2 (as claimed): after any sequence of Create, Patch and Delete, every id
\* that no Create handed out, or that a DELETE has removed since, answers 404
\* {"detail": "Not found"} to GET, PATCH and DELETE, and the table stays as
\* it was.
C2_AbsentIds404 ==
    track =>
        \A id \in ReqIds \ alive :
            /\ read_person(persons, id) = NotFound
            /\ \A body \in Bodies :
                /\ update_person(persons, id, body).resp = NotFound
                /\ update_person(persons, id, body).tbl = persons
            /\ delete_person(persons, id).resp = NotFound
            /\ delete_person(persons, id).tbl = persons

\* C6 (as claimed): after N successful Creates and no Delete, GET /persons
\* answers 200 with exactly N records, the oldest first (an empty array on an
\* empty store).
C6_ListInCreationOrder ==
    (track /\ ~deleted) =>
        LET r == read_persons(persons)
        IN  /\ r.status = 200
            /\ Len(r.body) = Len(order)
            /\ \A i \in 1 .. Len(order) : r.body[i].id.n = order[i]

(***************************************************************************)
(* Properties of two concurrent requests (ConcSpec).                       *)
(***************************************************************************)
\* C9: a request's session is closed on every exit path: no request is done
\* with its session still open, whatever it answered, and every session that
\* was opened is eventually closed.
C9_SessionsReleased ==
    \A r \in Reqs :
        /\ [](pc[r] = "done" => ~sess[r].open)
        /\ (sess[r].open ~> ~sess[r].open)

\* Both requests are done, one after a 500 and one after a 404, and both
\* sessions are closed.
C9_Witness ==
    /\ \A r \in Reqs : pc[r] = "done" /\ ~sess[r].open
    /\ resp["r1"] = 500
    /\ resp["r2"] = 404

\* The request among W whose commit came last.
LastCommitter(W) ==
    LET pos(r) == CHOOSE i \in 1 .. Len(commits) : commits[i] = r
    IN  CHOOSE r \in W : \A q \in W : pos(q) <= pos(r)

\* The value request r's body gives field f.
Written(r, f) ==
    LET b == req[r].body
    IN  b[CHOOSE i \in 1 .. Len(b) : b[i].k = f].v

\* C10 (as claimed): when two concurrent requests wrote the same id, both
\* were answered, and each field of the stored row holds the value of the
\* request that committed last among those that wrote the field.
C10_LastCommittedWins ==
    (\A r \in Reqs : pc[r] = "done") =>
        /\ \A r \in Reqs : resp[r] # 0
        /\ \A row \in persons, f \in Fields :
            LET W == { r \in Reqs : /\ req[r].op = "patch"
                                    /\ req[r].id = row.id.n
                                    /\ resp[r] = 200
                                    /\ f \in BodyKeys(req[r].body) }
            IN  W # {} => row[f] = Written(LastCommitter(W), f)

====
